---------------------------- MODULE Spec2Model ----------------------------
(***************************************************************************)
(* A model of the copperplasma rendering engine (src/src/App.tsx).         *)
(*                                                                         *)
(* The engine is one React component.  Its state is the component's        *)
(* useState cells (time, effectMode, bufferMode, ...), three canvases (the *)
(* visible canvas, the offscreen "back" canvas and the lazily created      *)
(* third "work" canvas) and the animation loop's closure.  A frame is      *)
(* produced by the render useEffect, which runs whenever one of its        *)
(* dependencies changed.                                                   *)
(*                                                                         *)
(* Pixel buffers are byte arrays, indexed from 0 as in the source, of      *)
(* width x height RGBA pixels.  The numbers the kernels take from Math.sin *)
(* are replaced by an integer phase (see SinQ and KernelIndex): what a     *)
(* kernel writes is still a function of the effect mode, the palette, the  *)
(* pixel position and the time, and of nothing else unless the code makes  *)
(* it so.                                                                  *)
(***************************************************************************)
EXTENDS Integers, Sequences, FiniteSets, TLC

VARIABLES
    time,                   \* useState time                      (l. 214)
    paletteIndex,           \* useState paletteIndex              (l. 215)
    speed,                  \* useState speed, in tenths          (l. 218)
    effectMode,             \* useState effectMode                (l. 220)
    bufferMode,             \* useState bufferMode                (l. 225)
    surfaceWaveMode,        \* useState surfaceWaveMode           (l. 228)
    bloomIntensity,         \* useState bloomIntensity, in 1/100  (l. 249)
    chromaticAberration,    \* useState chromaticAberration, 1/100 (l. 250)
    paramFault,             \* the numeric effect parameters (l. 216-246), see below
    canvas,                 \* pixels of the visible canvas, canvasRef (l. 209)
    offscreenCanvasRef,     \* Null or the pixels of the back canvas   (l. 210)
    tripleBufferCanvasRef,  \* Null or the pixels of the work canvas   (l. 211)
    compositeOp,            \* globalCompositeOperation of the two offscreen contexts
    renderPending,          \* a dependency of the render useEffect changed
    tick,                   \* history: what the last run of the render useEffect did
    changes,                \* history: parameter changes made by the user so far
    now,                    \* performance.now(), in ms
    loops,                  \* the runs of the animation useEffect (l. 980-1031)
    fpsCounterRef,          \* fpsCounterRef.current                (l. 254)
    fps,                    \* useState fps                         (l. 253)
    errors,                 \* the console.error calls of animate   (l. 1012)
    passData,               \* a pixel buffer handed to a post-processing pass
    passBefore,             \* history: its bytes before the last pass
    gridLoop,               \* the loops of a call of renderGrid (l. 645-659); its
                            \* beat is the parity of the tests made so far
    built,                  \* the palette a builder returned last
    codec,                  \* the colour encoded and decoded last
    lookup                  \* the palette index a kernel computed last

-----------------------------------------------------------------------------
(* Bounds of the model.                                                    *)

\* The canvas is width x height pixels (1200 x 800 in the source, l. 829-830).
width == 4
height == 4

\* The render useEffect runs for at most this many values of time.
MaxFrames == 2

\* At most this many changes of a parameter by the user in one run.
MaxChanges == 3

\* The clock runs to at most this many ms, and from there on only to the
\* first callback of a loop that was restarted.
MaxClock == 30

\* At most this many runs of the animation useEffect (one more per change
\* of the speed), and at most this many failing callbacks.
MaxLoops == 2
MaxErrors == 1

\* The object counts of the shape renderers, scaled to the small canvas:
\* useState copperCount (l. 222), starCount (l. 243), gridSize (l. 245).
copperCount == 2
starCount == 2
gridSize == 2

\* useState waveAmplitude (l. 229) in 1/100, scaled to the small canvas so
\* that the displacement reaches a neighbouring pixel.
waveAmplitude == 40

-----------------------------------------------------------------------------
(* Program constants.                                                      *)

PaletteSize == 64       \* entries of a palette (l. 33)
NumPalettes == 19       \* PALETTES.length (l. 37-206)

EffectModes ==
    {"plasma", "copper", "both", "tunnel", "metaballs", "rotozoomer", "fire",
     "ripples", "fractals", "starfield", "twister", "grid", "noise"}

SurfaceWaveModes == {"none", "gentle", "moderate", "intense", "storm"}

BufferModes == {"double", "triple"}

Null == <<>>

-----------------------------------------------------------------------------
(* Arithmetic helpers.                                                     *)

Min(a, b) == IF a <= b THEN a ELSE b
Max(a, b) == IF a >= b THEN a ELSE b
Abs(a) == IF a < 0 THEN 0 - a ELSE a

\* clamp (l. 27-28)
clamp(value, min, max) == Min(Max(value, min), max)

\* Math.floor(num / den) for den > 0.
Floor(num, den) == num \div den

\* Math.round(num / den) for den > 0: halves round up.
Round(num, den) == (2 * num + den) \div (2 * den)

\* A store of num / den (den > 0) into a Uint8ClampedArray: clamped to
\* 0..255 and rounded to the nearest integer, halves to the even one.
ToUint8Clamped(num, den) ==
    LET f == num \div den
        r == num - f * den
        n == IF 2 * r < den THEN f
             ELSE IF 2 * r > den THEN f + 1
             ELSE IF f % 2 = 0 THEN f ELSE f + 1
    IN  clamp(n, 0, 255)

\* Math.sin sampled at quarter turns: SinQ(n) = sin(n * pi / 2).
SinQ(n) == CASE n % 4 = 0 -> 0
             [] n % 4 = 1 -> 1
             [] n % 4 = 2 -> 0
             [] OTHER     -> 0 - 1

\* The % of JavaScript: the result has the sign of the dividend.
JsRem(a, b) == IF a >= 0 THEN a % b ELSE 0 - ((0 - a) % b)

-----------------------------------------------------------------------------
(* Colours as text (palettes.ts l. 176-185).  A string is the sequence of  *)
(* its characters.                                                         *)

HexDigits == <<"0", "1", "2", "3", "4", "5", "6", "7", "8", "9",
               "a", "b", "c", "d", "e", "f">>
UpperHexDigits == <<"0", "1", "2", "3", "4", "5", "6", "7", "8", "9",
                    "A", "B", "C", "D", "E", "F">>

\* The characters "[a-f\d]" matches when the case is ignored (l. 177).
HexChars == {HexDigits[k] : k \in 1..16} \cup {UpperHexDigits[k] : k \in 1..16}

\* Number.prototype.toString(16) of an integer n >= 0.
RECURSIVE toString16(_)
toString16(n) ==
    IF n < 16 THEN <<HexDigits[n + 1]>>
    ELSE Append(toString16(n \div 16), HexDigits[(n % 16) + 1])

\* parseInt(s, 16) of a string of characters of HexChars.
RECURSIVE parseInt16(_)
parseInt16(s) ==
    IF s = <<>> THEN 0
    ELSE LET c == s[Len(s)]
             d == CHOOSE k \in 0..15 : c \in {HexDigits[k + 1], UpperHexDigits[k + 1]}
         IN  16 * parseInt16(SubSeq(s, 1, Len(s) - 1)) + d

\* An encoding that leaves out the leading 1 and the slice.
rgbToHexUnpadded(r, g, b) == <<"#">> \o toString16(r * 2^16 + g * 2^8 + b)

\* rgbToHex (palettes.ts l. 183-185), for components from 0 on:
\* "#" + ((1 << 24) + (r << 16) + (g << 8) + b).toString(16).slice(1).
rgbToHex(r, g, b) == <<"#">> \o Tail(toString16(2^24 + r * 2^16 + g * 2^8 + b))

\* hexToRgb (palettes.ts l. 176-181): an optional "#" and three pairs of
\* hexadecimal digits, or else black.
hexToRgb(hex) ==
    LET body == IF hex # <<>> /\ hex[1] = "#" THEN Tail(hex) ELSE hex
    IN  IF Len(body) = 6 /\ \A k \in 1..6 : body[k] \in HexChars
        THEN <<parseInt16(SubSeq(body, 1, 2)), parseInt16(SubSeq(body, 3, 4)),
               parseInt16(SubSeq(body, 5, 6))>>
        ELSE <<0, 0, 0>>

-----------------------------------------------------------------------------
(* Palettes (l. 31-206).  The argument t of a generator is the fraction    *)
(* num / den, den > 0; the arithmetic is exact where the code's is in      *)
(* double precision.  A generator is a record of its name and, for one     *)
(* of the shape "t => [floor(a + t * b), ...]", of its a and b.            *)

\* "Fire" (l. 38-44)
Fire(num, den) ==
    IF 2 * num < den
    THEN <<255, Floor(num * 2 * 255, den), 0>>
    ELSE <<255, 255, Floor((2 * num - den) * 255, den)>>

\* "Ocean" (l. 46-50), "Copper" (l. 61-65), "Arctic Ice" (l. 97-101) and
\* the like: Math.floor(base + t * slope) for each component.
Linear(g, num, den) ==
    [k \in 1..3 |-> Floor(g.base[k] * den + num * g.slope[k], den)]

FireGenerator == [name |-> "Fire", base |-> <<255, 0, 0>>, slope |-> <<0, 0, 0>>]
OceanGenerator == [name |-> "Ocean", base |-> <<0, 100, 150>>, slope |-> <<100, 155, 105>>]

\* hslToRgb (palettes.ts l. 121-151) of the hue h = num / den turns, with
\* s and l in percent.  c is held in 1/10000, x in 1/(10000 * den) and m
\* in 1/20000; a hue of a full turn or more meets none of the six cases.
hslToRgb(num, den, s, l) ==
    LET c == (100 - Abs(2 * l - 100)) * s
        x == c * (den - Abs(((6 * num) % (2 * den)) - den))
        m == 200 * l - c
        C == Round(255 * (2 * c + m), 20000)
        X == Round(255 * (2 * x + m * den), 20000 * den)
        O == Round(255 * m, 20000)
    IN  CASE 0 <= num /\ 6 * num < den           -> <<C, X, O>>
          [] den <= 6 * num /\ 6 * num < 2 * den -> <<X, C, O>>
          [] 2 * den <= 6 * num /\ 6 * num < 3 * den -> <<O, C, X>>
          [] 3 * den <= 6 * num /\ 6 * num < 4 * den -> <<O, X, C>>
          [] 4 * den <= 6 * num /\ 6 * num < 5 * den -> <<X, O, C>>
          [] 5 * den <= 6 * num /\ 6 * num < 6 * den -> <<C, O, X>>
          [] OTHER -> <<O, O, O>>

\* The colour of generateFirePalette at t (palettes.ts l. 7-36).
FireHex(num, den) ==
    LET f == 4 * num
    IN  IF f < den THEN rgbToHex(Floor(f * 64, den), 0, 0)
        ELSE IF f < 2 * den THEN rgbToHex(Floor(64 * den + (f - den) * 191, den), 0, 0)
        ELSE IF f < 3 * den THEN rgbToHex(255, Floor((f - 2 * den) * 255, den), 0)
        ELSE rgbToHex(255, 255, Floor((f - 3 * den) * 255, den))

\* The colour of generateRainbowPalette at t, the hue being t * 360
\* (palettes.ts l. 75-77).
RainbowHex(num, den) ==
    LET rgb == hslToRgb(num, den, 100, 50) IN rgbToHex(rgb[1], rgb[2], rgb[3])

\* The value of a generator at t = num / den.
generator(g, num, den) ==
    CASE g.name = "Fire" -> Fire(num, den)
      [] g.name = "generateFirePalette" -> FireHex(num, den)
      [] g.name = "generateRainbowPalette" -> RainbowHex(num, den)
      [] OTHER -> Linear(g, num, den)

\* A builder that takes the argument of the generator as i / 64.
createPaletteSampledShort(g) ==
    [i \in 0..(PaletteSize - 1) |-> generator(g, i, 64)]

\* createPalette (l. 31-34): Array.from({ length: 64 }, (_, i) =>
\* generator(i / 63)).
createPalette(g) ==
    [i \in 0..(PaletteSize - 1) |-> generator(g, i, 63)]

\* generateFirePalette (palettes.ts l. 4-39): t = i / (count - 1).
generateFirePalette(count) ==
    [i \in 0..(count - 1) |-> FireHex(i, count - 1)]

\* generateRainbowPalette (palettes.ts l. 72-80): hue = (i / count) * 360.
generateRainbowPalette(count) ==
    [i \in 0..(count - 1) |-> RainbowHex(i, count)]

\* PALETTES (l. 37-206): 19 palettes.  The first two are built from their
\* generators; the generators of the others are not told apart from these
\* two, whose colours they take in turn.
PALETTES ==
    [k \in 0..(NumPalettes - 1) |->
        IF k % 2 = 0 THEN createPalette(FireGenerator)
        ELSE createPalette(OceanGenerator)]

\* PALETTES[paletteIndex] is undefined, so that reading a property of it
\* (".colors", l. 352 and alike; ".name", l. 1916) throws a TypeError.
PaletteMissing == paletteIndex \notin DOMAIN PALETTES

\* currentPalette (l. 257-260)
currentPalette == PALETTES[clamp(paletteIndex, 0, NumPalettes - 1)]

-----------------------------------------------------------------------------
(* Pixel buffers.                                                          *)

PixelCount == width * height
Bytes == 0..(PixelCount * 4 - 1)
Xs == 0..(width - 1)
Ys == 0..(height - 1)

\* ctx.createImageData(width, height): transparent black.
createImageData == [p \in Bytes |-> 0]

\* document.createElement('canvas') / ctx.clearRect over the whole canvas.
BlankCanvas == [p \in Bytes |-> 0]

\* fillStyle = '#000000'; fillRect(0, 0, width, height)  (l. 861-862)
BlackCanvas == [p \in Bytes |-> IF p % 4 = 3 THEN 255 ELSE 0]

\* putImageData into a context created with alpha: false: the canvas is
\* opaque, a pixel of alpha 0 is stored as opaque black.
putImageData(data) ==
    [p \in Bytes |->
        LET a == data[(p \div 4) * 4 + 3]
        IN  IF p % 4 = 3 THEN 255
            ELSE IF a = 0 THEN 0 ELSE data[p]]

-----------------------------------------------------------------------------
(* Effect kernels (l. 263-694).                                            *)
(*                                                                         *)
(* paramFault stands for the numeric parameters of the per-pixel kernels   *)
(* and of the copper bars (xFreq, tunnelDepth, copperSpeed, ...): 0 when   *)
(* they are finite, k > 0 when they make the kernel's value NaN from the   *)
(* k-th pixel (in row-major order) on, as a non-finite frequency does.     *)

\* The time as the kernels' phase sees it.
TimePhase == time \div 10

\* The position of an effect mode in the dispatch of the render useEffect.
ModeSeed(mode) ==
    CASE mode = "plasma"     -> 0
      [] mode = "tunnel"     -> 1
      [] mode = "metaballs"  -> 2
      [] mode = "rotozoomer" -> 3
      [] mode = "fire"       -> 4
      [] mode = "ripples"    -> 5
      [] mode = "fractals"   -> 6
      [] mode = "starfield"  -> 7
      [] mode = "twister"    -> 8
      [] mode = "grid"       -> 9
      [] mode = "noise"      -> 10
      [] OTHER               -> 11

\* The NaN a kernel computes from a non-finite parameter.
NaN == 0 - 1

\* colorIndex = Math.floor(value * 63) of a per-pixel kernel at (x, y).
KernelIndex(mode, x, y) ==
    IF paramFault > 0 /\ y * width + x + 1 >= paramFault
    THEN NaN
    ELSE (5 * ModeSeed(mode) + 7 * x + 13 * y + TimePhase) % PaletteSize

\* The first pixel, in row-major order, whose palette lookup
\* "const [r, g, b] = palette[colorIndex]" throws; PixelCount when none does.
FirstThrow(mode) ==
    LET bad == {n \in 0..(PixelCount - 1) :
                    KernelIndex(mode, n % width, n \div width) \notin 0..(PaletteSize - 1)}
    IN  IF bad = {} THEN PixelCount
        ELSE CHOOSE n \in bad : \A m \in bad : n <= m

\* The double loop of a per-pixel kernel: every pixel before the first throw
\* is written, the others are left as they were.
PixelKernel(mode, palette, data) ==
    LET stop == FirstThrow(mode)
    IN  [data |-> [p \in Bytes |->
                      LET n == p \div 4
                      IN  IF n >= stop THEN data[p]
                          ELSE IF p % 4 = 3 THEN 255
                          ELSE palette[KernelIndex(mode, n % width, n \div width)][(p % 4) + 1]],
         threw |-> stop < PixelCount]

\* renderPlasma (l. 285-348): the kernel's own try/catch swallows the throw.
renderPlasma(data) ==
    LET r == PixelKernel("plasma", currentPalette, data)
    IN  [data |-> r.data, threw |-> FALSE, caught |-> r.threw]

\* renderTunnel ... renderNoise (l. 351-556, 603-635, 663-694): no try/catch.
PixelsRendered(r) == [data |-> r.data, threw |-> r.threw, caught |-> FALSE]
renderPixels(mode, data) ==
    IF PaletteMissing THEN [data |-> data, threw |-> TRUE, caught |-> FALSE]
    ELSE PixelsRendered(PixelKernel(mode, PALETTES[paletteIndex], data))

-----------------------------------------------------------------------------
(* The palette index of the kernels that divide by a parameter.  A value   *)
(* is the fraction num / den in exact arithmetic; an index is finite or    *)
(* not (NaN, Infinity), and n is its number when it is.                    *)

\* Math.floor(value * 63) for value = num / den as JavaScript divides:
\* a division by 0 gives NaN or an infinity.
FloorIndex(num, den) ==
    IF den = 0 THEN [finite |-> FALSE, n |-> 0]
    ELSE [finite |-> TRUE,
          n |-> IF den > 0 THEN Floor(63 * num, den) ELSE Floor(63 * (0 - num), 0 - den)]

\* renderMetaballs (l. 393-406): count balls of the size size100 / 100, all
\* at the distance d of the pixel; metaValue = Math.min(1, sum * 0.01).
MetaballIndex(count, size100, d) ==
    IF count * size100 * width >= 10000 * (d + 1)
    THEN [finite |-> TRUE, n |-> 63]
    ELSE FloorIndex(count * size100 * width, 10000 * (d + 1))

\* renderRipples (l. 498-511): the sum of the sources is sum100 / 100;
\* rippleValue = (sum + rippleCount) / (rippleCount * 2).
RippleIndex(rippleCount, sum100) ==
    FloorIndex(sum100 + 100 * rippleCount, 200 * rippleCount)

\* renderFractals (l. 538-549): fractalValue = iterations / fractalIterations.
FractalIndex(iterations, fractalIterations) == FloorIndex(iterations, fractalIterations)

-----------------------------------------------------------------------------
(* Canvas 2D drawing, as far as the shape renderers use it.  A colour is   *)
(* <<r, g, b>>, an alpha is in 1/100.                                      *)

\* One channel of a pixel drawn with globalCompositeOperation op onto an
\* opaque canvas: 'screen' blends B = dst + src - dst * src / 255 first,
\* then the source's alpha mixes the result with the backdrop.
Composite(op, dst, src, alpha) ==
    LET blend255 == IF op = "screen"
                    THEN 255 * (dst + src) - dst * src
                    ELSE 255 * src
    IN  clamp(Round(blend255 * alpha + 255 * dst * (100 - alpha), 25500), 0, 255)

\* fillRect of one pixel n of canvas cv with colour rgb and alpha.
FillPixel(cv, n, rgb, alpha, op) ==
    [p \in Bytes |->
        IF p \div 4 # n \/ p % 4 = 3 THEN cv[p]
        ELSE Composite(op, cv[p], rgb[(p % 4) + 1], alpha)]

\* fillRect over the pixels of the set ns, all with the same colour.
FillPixels(cv, ns, rgb, alpha, op) ==
    [p \in Bytes |->
        IF (p \div 4) \notin ns \/ p % 4 = 3 THEN cv[p]
        ELSE Composite(op, cv[p], rgb[(p % 4) + 1], alpha)]

\* The rows the copper bar i covers: from y, which sways with the time
\* (l. 267), over the rect's height barHeight + 10 (l. 278), clipped to the
\* canvas.  On the small canvas the sway and the overshoot of the rect past
\* its gradient are one row each, so that neighbouring bars overlap as they
\* do on the full canvas.
barHeight == Max(1, Floor(height, copperCount))
BarY(i) == JsRem(i * barHeight + SinQ(TimePhase + i), height)
BarRows(i) == {yy \in Ys : BarY(i) <= yy /\ yy <= BarY(i) + barHeight}

\* The gradient of a bar (l. 272-275) at row yy: black of alpha 0.3 at both
\* ends, the palette colour at the centre; past the gradient's end the rect
\* is painted with the last colour stop.
BarEdge(i, yy) == Min(barHeight, Abs(2 * (yy - BarY(i)) + 1 - barHeight))
BarAlpha(i, yy) == 100 - Floor(70 * BarEdge(i, yy), barHeight)
BarColor(i, yy, rgb) ==
    LET k == barHeight - BarEdge(i, yy)
    IN  <<Floor(rgb[1] * k, barHeight), Floor(rgb[2] * k, barHeight),
          Floor(rgb[3] * k, barHeight)>>

\* One bar of renderCopper (l. 266-278) drawn on canvas cv.
DrawBar(cv, i, op) ==
    LET colorIndex == clamp(Floor(i * 63, copperCount), 0, 63)
        rgb == currentPalette[colorIndex]
    IN  [p \in Bytes |->
            LET n == p \div 4
                yy == n \div width
            IN  IF yy \notin BarRows(i) \/ p % 4 = 3 THEN cv[p]
                ELSE Composite(op, cv[p], BarColor(i, yy, rgb)[(p % 4) + 1],
                               BarAlpha(i, yy))]

RECURSIVE DrawBars(_, _, _)
DrawBars(cv, i, op) ==
    IF i >= copperCount THEN cv ELSE DrawBars(DrawBar(cv, i, op), i + 1, op)

\* renderCopper (l. 263-283).  A non-finite copperSpeed makes
\* createLinearGradient throw for the first bar; the try/catch swallows it.
renderCopper(cv, op) ==
    IF paramFault > 0
    THEN [canvas |-> cv, threw |-> FALSE, caught |-> TRUE]
    ELSE [canvas |-> DrawBars(cv, 0, op), threw |-> FALSE, caught |-> FALSE]

\* renderStarfield (l. 559-600): clears to black, then one small rect per
\* star that is on the screen, and a glow of alpha 0.3 over the near ones.
StarPixel(i) == (4 * i + TimePhase) % PixelCount
StarBrightness(i) == (3 * i + TimePhase) % 4       \* in quarters
StarColor(i) == PALETTES[paletteIndex][32 + Floor(StarBrightness(i) * 31, 4)]

RECURSIVE DrawStars(_, _)
DrawStars(cv, i) ==
    IF i >= starCount THEN cv
    ELSE LET star == FillPixel(cv, StarPixel(i), StarColor(i), 100, "source-over")
             glow == IF StarBrightness(i) >= 3
                     THEN FillPixel(star, StarPixel(i), StarColor(i), 30, "source-over")
                     ELSE star
         IN  DrawStars(glow, i + 1)

renderStarfield(cv) ==
    IF PaletteMissing THEN [canvas |-> cv, threw |-> TRUE, caught |-> FALSE]
    ELSE [canvas |-> DrawStars(BlackCanvas, 0), threw |-> FALSE, caught |-> FALSE]

\* renderGrid (l. 638-660): clears to black, then one rect of
\* (cellSize - 1) x (cellSize - 1) pixels per cell.
GridCells == {n \in 0..(PixelCount - 1) :
                 (n % width) % gridSize = 0 /\ (n \div width) % gridSize = 0}
CellPixels(c) ==
    {n \in 0..(PixelCount - 1) :
        /\ c % width <= n % width /\ n % width < (c % width) + gridSize - 1
        /\ c \div width <= n \div width /\ n \div width < (c \div width) + gridSize - 1}
CellColor(c) ==
    PALETTES[paletteIndex][(45 + 7 * (c % width) + 13 * (c \div width) + TimePhase)
                            % PaletteSize]

RECURSIVE DrawCells(_, _)
DrawCells(cv, cells) ==
    IF cells = {} THEN cv
    ELSE LET c == CHOOSE c \in cells : \A d \in cells : c <= d
         IN  DrawCells(FillPixels(cv, CellPixels(c), CellColor(c), 100, "source-over"),
                       cells \ {c})

renderGrid(cv) ==
    IF PaletteMissing THEN [canvas |-> cv, threw |-> TRUE, caught |-> FALSE]
    ELSE [canvas |-> DrawCells(BlackCanvas, GridCells), threw |-> FALSE, caught |-> FALSE]

-----------------------------------------------------------------------------
(* Post-processing (l. 697-820).                                           *)

\* A bloom that reads the neighbourhood from the buffer it is writing, so
\* that a pixel brightened earlier in the pass feeds the pixels after it.
RECURSIVE BloomInPlaceFrom(_, _)
BloomInPlaceFrom(data, p) ==
    IF p >= PixelCount * 4 THEN data
    ELSE LET n == p \div 4
             x == n % width
             y == n \div width
             c == p % 4
             sum == LET nb(dy, dx) == data[((y + dy) * width + (x + dx)) * 4 + c]
                    IN  nb(0 - 1, 0 - 1) + nb(0 - 1, 0) + nb(0 - 1, 1)
                        + nb(0, 0 - 1) + nb(0, 0) + nb(0, 1)
                        + nb(1, 0 - 1) + nb(1, 0) + nb(1, 1)
         IN  IF x < 1 \/ x >= width - 1 \/ y < 1 \/ y >= height - 1 \/ c = 3
             THEN BloomInPlaceFrom(data, p + 1)
             ELSE BloomInPlaceFrom(
                      [data EXCEPT ![p] =
                          ToUint8Clamped(Min(255 * 900,
                                             data[p] * 900 + sum * bloomIntensity),
                                         900)],
                      p + 1)

applyBloomInPlace(data) ==
    IF bloomIntensity <= 0 THEN data ELSE BloomInPlaceFrom(data, 0)

\* applyBloom (l. 697-725)
applyBloom(data) ==
    IF bloomIntensity <= 0 THEN data
    ELSE LET tempData == data
         IN  [p \in Bytes |->
                LET n == p \div 4
                    x == n % width
                    y == n \div width
                    c == p % 4
                    sum == LET nb(dy, dx) == tempData[((y + dy) * width + (x + dx)) * 4 + c]
                           IN  nb(0 - 1, 0 - 1) + nb(0 - 1, 0) + nb(0 - 1, 1)
                               + nb(0, 0 - 1) + nb(0, 0) + nb(0, 1)
                               + nb(1, 0 - 1) + nb(1, 0) + nb(1, 1)
                IN  IF x < 1 \/ x >= width - 1 \/ y < 1 \/ y >= height - 1 \/ c = 3
                    THEN data[p]
                    ELSE ToUint8Clamped(Min(255 * 900, data[p] * 900 + sum * bloomIntensity),
                                        900)]

\* An offset rounded to the nearest pixel.
ChromaticOffsetRounded == Round(chromaticAberration * width, 100)

\* offset = Math.floor(chromaticAberration * width)  (l. 731)
ChromaticOffset == Floor(chromaticAberration * width, 100)

\* applyChromaticAberration with the offset rounded to the nearest pixel
\* instead of rounded down.
applyChromaticAberrationRounded(data) ==
    IF chromaticAberration <= 0 THEN data
    ELSE LET tempData == data
             offset == Round(chromaticAberration * width, 100)
         IN  [p \in Bytes |->
                LET n == p \div 4
                    x == n % width
                    y == n \div width
                    c == p % 4
                    redX == Max(0, x - offset)
                    blueX == Min(width - 1, x + offset)
                IN  CASE c = 0 -> tempData[(y * width + redX) * 4]
                      [] c = 1 -> tempData[p]
                      [] c = 2 -> tempData[(y * width + blueX) * 4 + 2]
                      [] OTHER -> data[p]]

\* An aberration that reads the buffer it writes: the red of a pixel to
\* the left has been written by the time it is read.
applyChromaticAberrationInPlace(data) ==
    IF chromaticAberration <= 0 THEN data
    ELSE LET offset == ChromaticOffset
         IN  [p \in Bytes |->
                LET n == p \div 4
                    x == n % width
                    y == n \div width
                    c == p % 4
                    blueX == Min(width - 1, x + offset)
                IN  CASE c = 0 -> IF offset > 0 THEN data[(y * width) * 4] ELSE data[p]
                      [] c = 1 -> data[p]
                      [] c = 2 -> data[(y * width + blueX) * 4 + 2]
                      [] OTHER -> data[p]]

\* applyChromaticAberration (l. 727-751)
applyChromaticAberration(data) ==
    IF chromaticAberration <= 0 THEN data
    ELSE LET tempData == data
             offset == ChromaticOffset
         IN  [p \in Bytes |->
                LET n == p \div 4
                    x == n % width
                    y == n \div width
                    c == p % 4
                    redX == Max(0, x - offset)
                    blueX == Min(width - 1, x + offset)
                IN  CASE c = 0 -> tempData[(y * width + redX) * 4]
                      [] c = 1 -> tempData[p]
                      [] c = 2 -> tempData[(y * width + blueX) * 4 + 2]
                      [] OTHER -> data[p]]

\* The multipliers of the switch on surfaceWaveMode (l. 762-783), in 1/10.
AmplitudeMult(mode) ==
    CASE mode = "gentle" -> 5 [] mode = "moderate" -> 10
      [] mode = "intense" -> 18 [] mode = "storm" -> 25 [] OTHER -> 0
FrequencyMult(mode) ==
    CASE mode = "gentle" -> 7 [] mode = "moderate" -> 10
      [] mode = "intense" -> 14 [] mode = "storm" -> 20 [] OTHER -> 0
SpeedMult(mode) ==
    CASE mode = "gentle" -> 8 [] mode = "moderate" -> 10
      [] mode = "intense" -> 13 [] mode = "storm" -> 16 [] OTHER -> 0

\* The source pixel of (x, y) (l. 796-808).  The displacement, in 1/10000
\* of a pixel, is amplitude * size * sine, the ripple term weighs 0.3.
WaveSource(mode, x, y) ==
    LET amp == waveAmplitude * AmplitudeMult(mode)      \* in 1/1000
        waveX == SinQ(y * FrequencyMult(mode) + TimePhase * SpeedMult(mode)) * amp * width * 10
        waveY == SinQ(x * FrequencyMult(mode) + TimePhase * SpeedMult(mode) * 7) * amp * height * 10
        dist2 == (2 * x - width) * (2 * x - width) + (2 * y - height) * (2 * y - height)
        ripple == SinQ(dist2 * FrequencyMult(mode) - TimePhase * SpeedMult(mode) * 2) * amp * 3
        sourceX == clamp(Round(x * 10000 + waveX + ripple * width, 10000), 0, width - 1)
        sourceY == clamp(Round(y * 10000 + waveY + ripple * height, 10000), 0, height - 1)
    IN  sourceY * width + sourceX

\* A surface wave that copies within the buffer it is writing, so that a
\* pixel moved earlier in the pass can be picked up as a source.
RECURSIVE WaveInPlaceFrom(_, _)
WaveInPlaceFrom(data, n) ==
    IF n >= PixelCount THEN data
    ELSE LET src == WaveSource(surfaceWaveMode, n % width, n \div width)
         IN  WaveInPlaceFrom(
                 [p \in Bytes |-> IF p \div 4 = n THEN data[src * 4 + (p % 4)]
                                  ELSE data[p]],
                 n + 1)

applySurfaceWaveInPlace(cv) ==
    IF surfaceWaveMode = "none" THEN cv ELSE WaveInPlaceFrom(cv, 0)

\* applySurfaceWave (l. 754-820) on the pixels cv of a canvas.
applySurfaceWave(cv) ==
    IF surfaceWaveMode = "none" THEN cv
    ELSE LET tempData == cv
         IN  [p \in Bytes |->
                LET n == p \div 4
                IN  tempData[WaveSource(surfaceWaveMode, n % width, n \div width) * 4 + (p % 4)]]

-----------------------------------------------------------------------------
(* The render useEffect (l. 822-978).                                      *)

PerPixelModes ==
    {"plasma", "both", "tunnel", "metaballs", "rotozoomer", "fire", "ripples",
     "fractals", "twister", "noise"}

\* The pixels an ImageData holds that a kernel has written (alpha 255).
Written(data) == Cardinality({n \in 0..(PixelCount - 1) : data[n * 4 + 3] = 255})

\* "if (bloomIntensity > 0) applyBloom(...)" and "if (chromaticAberration >
\* 0) applyChromaticAberration(...)" of a block (l. 868-869 and alike).
BloomPass(data) == IF bloomIntensity > 0 THEN applyBloom(data) ELSE data
AberrationPass(data) ==
    IF chromaticAberration > 0 THEN applyChromaticAberration(data) ELSE data

\* The passes of a block as its record of steps shows them.
PassLog ==
    (IF bloomIntensity > 0 THEN <<"bloom">> ELSE <<>>)
        \o (IF chromaticAberration > 0 THEN <<"chromatic">> ELSE <<>>)

\* The passes of a block in the other order, the aberration before bloom.
PostProcessAberrationFirst(work, r) ==
    IF r.threw
    THEN [work |-> work, log |-> <<"render">>, threw |-> TRUE, caught |-> FALSE,
          written |-> Written(r.data)]
    ELSE [work |-> putImageData(BloomPass(AberrationPass(r.data))),
          log |-> <<"render">>
                  \o (IF chromaticAberration > 0 THEN <<"chromatic">> ELSE <<>>)
                  \o (IF bloomIntensity > 0 THEN <<"bloom">> ELSE <<>>)
                  \o <<"put">>,
          threw |-> FALSE, caught |-> r.caught, written |-> Written(r.data)]

\* What follows the kernel in a block "createImageData; render; bloom;
\* aberration; putImageData" (l. 865-943), r being what the kernel left: a
\* throw of the kernel leaves the block, and the effect, at once.
PostProcess(work, r) ==
    IF r.threw
    THEN [work |-> work, log |-> <<"render">>, threw |-> TRUE, caught |-> FALSE,
          written |-> Written(r.data)]
    ELSE [work |-> putImageData(AberrationPass(BloomPass(r.data))),
          log |-> <<"render">> \o PassLog \o <<"put">>,
          threw |-> FALSE, caught |-> r.caught, written |-> Written(r.data)]

\* One block of the dispatch for a per-pixel mode, on the work canvas.
PixelBlock(work, mode) ==
    PostProcess(work, IF mode = "plasma" THEN renderPlasma(createImageData)
                      ELSE renderPixels(mode, createImageData))

\* The block of the copper bars (l. 945-952): 'screen' over the plasma in
\* the combined mode, else whatever operation the context holds.
CopperDrawn(b, r) ==
    [work |-> r.canvas, log |-> b.log \o <<"copper">>, threw |-> FALSE,
     caught |-> b.caught \/ r.caught, written |-> b.written]
CopperBlock(b, op) ==
    CopperDrawn(b, renderCopper(b.work, IF effectMode = "both" THEN "screen" ELSE op))

\* A shape renderer drawing straight into the work context (l. 921-935).
ShapeBlock(r) ==
    [work |-> r.canvas, log |-> <<"render">>, threw |-> r.threw, caught |-> r.caught,
     written |-> PixelCount]

\* The copper bars over the plasma of the combined mode, unless the plasma
\* block threw.
OverPlasma(b, op) == IF b.threw THEN b ELSE CopperBlock(b, op)

\* The dispatch on effectMode (l. 864-952) over the cleared work canvas,
\* whose context holds the composite operation op.
Dispatch(work, op) ==
    IF effectMode = "both" THEN OverPlasma(PixelBlock(work, "plasma"), op)
    ELSE IF effectMode = "copper"
    THEN CopperBlock([work |-> work, log |-> <<>>, threw |-> FALSE, caught |-> FALSE,
                      written |-> PixelCount], op)
    ELSE IF effectMode = "starfield" THEN ShapeBlock(renderStarfield(work))
    ELSE IF effectMode = "grid" THEN ShapeBlock(renderGrid(work))
    ELSE PixelBlock(work, effectMode)

\* drawImage of a whole opaque canvas over a cleared one (l. 962-963, 972-973).
drawImage(source) == source

\* offscreenCanvasRef after l. 833-837: created when the ref is empty.
AllocOffscreen(off0) == IF off0 = Null THEN BlankCanvas ELSE off0

\* An allocation that creates the third canvas in either buffer mode.
AllocTripleEager(tri0) == IF tri0 = Null THEN BlankCanvas ELSE tri0

\* An allocation that releases the third canvas outside triple mode.
AllocTripleReleasing(tri0) ==
    IF bufferMode = "triple" THEN (IF tri0 = Null THEN BlankCanvas ELSE tri0) ELSE Null

\* tripleBufferCanvasRef after l. 840-844: created when triple buffering is
\* selected and the ref is empty; never released.
AllocTriple(tri0) ==
    IF bufferMode = "triple" /\ tri0 = Null THEN BlankCanvas ELSE tri0

\* A work canvas left as the last frame drew it.
ClearWorkSkipped(work) == work

\* The work canvas after "fillStyle = '#000000'; fillRect" (l. 861-862).
ClearWork(work) == BlackCanvas

\* A back canvas that the triple mode never copies the work canvas to.
BackBufferStale(work, off1) ==
    IF bufferMode = "triple" THEN off1
    ELSE IF surfaceWaveMode # "none" THEN applySurfaceWave(work) ELSE work

\* The back canvas once the frame is on the work canvas: in triple mode the
\* copy of the work canvas (l. 960-964), in double mode the work canvas
\* itself, distorted once more when a wave is selected (l. 967-969).
BackBuffer(work, off1) ==
    IF bufferMode = "triple" THEN drawImage(work)
    ELSE IF surfaceWaveMode # "none" THEN applySurfaceWave(work) ELSE work

\* The composite operations of the contexts after the effect: the bars
\* leave 'source-over' on the work context (l. 951).
OpsAfter(ops0) ==
    IF effectMode \in {"copper", "both"}
    THEN IF bufferMode = "triple" THEN [ops0 EXCEPT !.triple = "source-over"]
         ELSE [ops0 EXCEPT !.offscreen = "source-over"]
    ELSE ops0

\* The steps of a completed run after the dispatch, as its record shows them.
FinishLog ==
    (IF surfaceWaveMode # "none" THEN <<"wave">> ELSE <<>>)
        \o (IF bufferMode = "triple" THEN <<"copy">> ELSE <<>>)
        \o (IF bufferMode = "double" /\ surfaceWaveMode # "none" THEN <<"wave">> ELSE <<>>)
        \o <<"blit">>

\* The end of the effect (l. 955-973) once the dispatch has drawn the frame
\* on the work canvas: the wave, the copy to the back canvas, the copy to the
\* visible canvas.
Finish(waved, d, off1, tri1, ops0, created) ==
    [offscreen |-> BackBuffer(waved, off1),
     triple |-> IF bufferMode = "triple" THEN waved ELSE tri1,
     ops |-> OpsAfter(ops0), blitted |-> TRUE, threw |-> FALSE, caught |-> d.caught,
     created |-> created, written |-> d.written,
     log |-> <<"clear">> \o d.log \o FinishLog]

\* The effect from the dispatch on (l. 864-973): a throw of a renderer ends
\* it with the work canvas cleared and nothing copied.
Rendered(cleared, d, off1, tri1, ops0, created) ==
    IF d.threw
    THEN [offscreen |-> IF bufferMode = "triple" THEN off1 ELSE cleared,
          triple |-> IF bufferMode = "triple" THEN cleared ELSE tri1,
          ops |-> ops0, blitted |-> FALSE, threw |-> TRUE, caught |-> FALSE,
          created |-> created, written |-> d.written, log |-> <<"clear">> \o d.log]
    ELSE Finish(IF surfaceWaveMode # "none" THEN applySurfaceWave(d.work) ELSE d.work,
                d, off1, tri1, ops0, created)

\* The effect from the clearing of the work canvas on (l. 861-973).
Cleared(cleared, off1, tri1, ops0, created) ==
    Rendered(cleared,
             Dispatch(cleared, IF bufferMode = "triple" THEN ops0.triple
                               ELSE ops0.offscreen),
             off1, tri1, ops0, created)

\* The effect once the canvases exist (l. 846-973): with no work context it
\* returns at l. 858.
Allocated(off1, tri1, ops0, created) ==
    IF bufferMode = "triple" /\ tri1 = Null
    THEN [offscreen |-> off1, triple |-> tri1, ops |-> ops0, blitted |-> FALSE,
          threw |-> FALSE, caught |-> FALSE, created |-> created,
          written |-> 0, log |-> <<>>]
    ELSE Cleared(ClearWork(IF bufferMode = "triple" THEN tri1 ELSE off1),
                 off1, tri1, ops0, created)

\* The canvases the allocation created, from the refs before and after.
Created(off0, tri0, off1, tri1) ==
    [offscreen |-> off0 = Null /\ off1 # Null, triple |-> tri0 = Null /\ tri1 # Null]

\* The refs after the allocation (l. 833-844).
WithCanvases(off0, tri0, off1, tri1, ops0) ==
    Allocated(off1, tri1, ops0, Created(off0, tri0, off1, tri1))

\* The whole effect (l. 822-978), from the canvases off0 and tri0 the refs
\* hold (Null when never created) and the composite operations ops0 of their
\* contexts.
RenderFrame(off0, tri0, ops0) ==
    WithCanvases(off0, tri0, AllocOffscreen(off0), AllocTriple(tri0), ops0)

-----------------------------------------------------------------------------
(* The component: its initial state and the events that change it.         *)

vars == <<time, paletteIndex, speed, effectMode, bufferMode, surfaceWaveMode,
          bloomIntensity, chromaticAberration, paramFault, canvas,
          offscreenCanvasRef, tripleBufferCanvasRef, compositeOp, renderPending,
          tick, changes, now, loops, fpsCounterRef, fps, errors, passData,
          passBefore, gridLoop, built, codec, lookup>>

\* The buffer of the post-processing passes taken alone.
passVars == <<passData, passBefore>>

\* The functions taken alone: the loops of renderGrid, the builders of the
\* palettes and the conversions of a colour.
funcVars == <<gridLoop, built, codec, lookup>>

\* No call of renderGrid, no palette built, no colour converted.
NoLoop == [state |-> "idle", cellSize |-> 1, x |-> 0, y |-> 0, cells |-> {},
           beat |-> 0]
NoPalette == [builder |-> "none", gen |-> <<>>, colors |-> <<>>]
NoCode == [rgb |-> <<0, 0, 0>>, hex |-> <<>>, back |-> <<0, 0, 0>>]
NoLookup == [kernel |-> "none", index |-> [finite |-> TRUE, n |-> 0]]
FunctionsIdle ==
    gridLoop = NoLoop /\ built = NoPalette /\ codec = NoCode /\ lookup = NoLookup

\* The state of the animation loop.
loopVars == <<now, loops, fpsCounterRef, fps, errors>>

config == <<paletteIndex, effectMode, bufferMode, surfaceWaveMode, bloomIntensity,
            chromaticAberration, paramFault>>

buffers == <<canvas, offscreenCanvasRef, tripleBufferCanvasRef, compositeOp, tick>>

\* The values the user's controls are drawn from.
ModeInputs == {"plasma", "copper", "both", "tunnel", "starfield", "grid", "noise"}
PaletteInputs == {0, 1}
WaveInputs == {"none", "gentle"}
BloomInputs == {0, 30}
AberrationInputs == {0, 50}
FaultInputs == {0, 1, PixelCount \div 2 + 1}

\* The limits of clamp(speed, 0.1, 3.0) (l. 1006), in tenths.
MinSpeed == 1
MaxSpeed == 30

\* A step of the time that takes the speed as it is.
TimeStepUnclamped(s, deltaTime) == s * deltaTime

\* The step of the time for a callback deltaTime ms after the last advance
\* (l. 1006), in 1/5000: 0.1 * clamp(speed, 0.1, 3.0) * (deltaTime / 50).
TimeStep(s, deltaTime) == clamp(s, MinSpeed, MaxSpeed) * deltaTime

\* Before the effect has run: no frame, no canvas created.
NoTick == [log |-> <<>>, threw |-> FALSE, caught |-> FALSE, blitted |-> FALSE,
           created |-> [offscreen |-> FALSE, triple |-> FALSE], written |-> 0,
           mode |-> "double", prev |-> "double", triples |-> 0]

\* The state after the first render of the component (l. 209-254): the
\* refs are empty and the effects are still to run.
Init ==
    /\ time = 0
    /\ paletteIndex = 0
    /\ speed = 10
    /\ effectMode = "plasma"
    /\ bufferMode = "double"
    /\ surfaceWaveMode = "none"
    /\ bloomIntensity = 30
    /\ chromaticAberration = 50
    /\ paramFault = 0
    /\ canvas = BlankCanvas
    /\ offscreenCanvasRef = Null
    /\ tripleBufferCanvasRef = Null
    /\ compositeOp = [offscreen |-> "source-over", triple |-> "source-over"]
    /\ renderPending = TRUE
    /\ tick = NoTick
    /\ changes = 0
    /\ now = 0
    /\ loops = <<>>
    /\ fpsCounterRef = [frameCount |-> 0, lastTime |-> 0]
    /\ fps = 60
    /\ errors = <<>>
    /\ passData = createImageData
    /\ passBefore = createImageData
    /\ FunctionsIdle

\* An effect whose renderers draw on the visible canvas: it shows what is
\* on the work canvas, also when the run did not complete.
CommitDrawnDirectly(f) ==
    /\ offscreenCanvasRef' = f.offscreen
    /\ tripleBufferCanvasRef' = f.triple
    /\ compositeOp' = f.ops
    /\ canvas' = IF bufferMode = "triple" THEN f.triple ELSE f.offscreen
    /\ tick' = [log |-> f.log, threw |-> f.threw, caught |-> f.caught,
                blitted |-> f.blitted, created |-> f.created,
                written |-> f.written, mode |-> bufferMode, prev |-> tick.mode,
                triples |-> IF bufferMode = "triple"
                            THEN Min(2, tick.triples + 1) ELSE tick.triples]

\* The effect leaves the frame f: the refs, the visible canvas (l. 972-973,
\* reached only by a run that completes) and the record of the run.
Commit(f) ==
    /\ offscreenCanvasRef' = f.offscreen
    /\ tripleBufferCanvasRef' = f.triple
    /\ compositeOp' = f.ops
    /\ canvas' = IF f.blitted THEN drawImage(f.offscreen) ELSE canvas
    /\ tick' = [log |-> f.log, threw |-> f.threw, caught |-> f.caught,
                blitted |-> f.blitted, created |-> f.created,
                written |-> f.written, mode |-> bufferMode, prev |-> tick.mode,
                triples |-> IF bufferMode = "triple"
                            THEN Min(2, tick.triples + 1) ELSE tick.triples]

\* The component's render throws while it builds the panel (l. 1916):
\* nothing is committed and the render useEffect does not run.
RenderThrows ==
    /\ tick' = [tick EXCEPT !.log = <<>>, !.threw = TRUE, !.caught = FALSE,
                            !.blitted = FALSE, !.written = 0,
                            !.created = [offscreen |-> FALSE, triple |-> FALSE]]
    /\ UNCHANGED <<canvas, offscreenCanvasRef, tripleBufferCanvasRef, compositeOp>>

\* The component renders with the changed state, and the render useEffect
\* (l. 822-978), a dependency of which has changed, runs.
RenderEffect ==
    /\ renderPending
    /\ IF PaletteMissing THEN RenderThrows
       ELSE Commit(RenderFrame(offscreenCanvasRef, tripleBufferCanvasRef, compositeOp))
    /\ renderPending' = FALSE
    /\ UNCHANGED <<time, speed, config, changes, loopVars, passVars, funcVars>>

\* A control of the panel changes one parameter (l. 1136-1884).
Changed ==
    /\ ~renderPending
    /\ changes < MaxChanges
    /\ changes' = changes + 1
    /\ renderPending' = TRUE
    /\ UNCHANGED <<time, speed, buffers, loopVars, passVars, funcVars>>

SetEffectMode ==
    /\ \E m \in ModeInputs \ {effectMode} : effectMode' = m
    /\ Changed
    /\ UNCHANGED <<paletteIndex, bufferMode, surfaceWaveMode, bloomIntensity,
                   chromaticAberration, paramFault>>

SetPaletteIndex ==
    /\ \E i \in PaletteInputs \ {paletteIndex} : paletteIndex' = i
    /\ Changed
    /\ UNCHANGED <<effectMode, bufferMode, surfaceWaveMode, bloomIntensity,
                   chromaticAberration, paramFault>>

\* A selector of the buffer mode that also resets the visible canvas.
SetBufferModeResetting ==
    /\ \E b \in BufferModes \ {bufferMode} : bufferMode' = b
    /\ ~renderPending
    /\ changes < MaxChanges
    /\ changes' = changes + 1
    /\ renderPending' = TRUE
    /\ canvas' = BlankCanvas
    /\ UNCHANGED <<time, speed, offscreenCanvasRef, tripleBufferCanvasRef,
                   compositeOp, tick, loopVars, passVars, funcVars>>
    /\ UNCHANGED <<paletteIndex, effectMode, surfaceWaveMode, bloomIntensity,
                   chromaticAberration, paramFault>>

\* The selector of the buffer mode (l. 1202-1204): it sets the state cell and
\* touches no canvas.
SetBufferMode ==
    /\ \E b \in BufferModes \ {bufferMode} : bufferMode' = b
    /\ Changed
    /\ UNCHANGED <<paletteIndex, effectMode, surfaceWaveMode, bloomIntensity,
                   chromaticAberration, paramFault>>

SetSurfaceWaveMode ==
    /\ \E w \in WaveInputs \ {surfaceWaveMode} : surfaceWaveMode' = w
    /\ Changed
    /\ UNCHANGED <<paletteIndex, effectMode, bufferMode, bloomIntensity,
                   chromaticAberration, paramFault>>

SetBloomIntensity ==
    /\ \E v \in BloomInputs \ {bloomIntensity} : bloomIntensity' = v
    /\ Changed
    /\ UNCHANGED <<paletteIndex, effectMode, bufferMode, surfaceWaveMode,
                   chromaticAberration, paramFault>>

SetChromaticAberration ==
    /\ \E v \in AberrationInputs \ {chromaticAberration} : chromaticAberration' = v
    /\ Changed
    /\ UNCHANGED <<paletteIndex, effectMode, bufferMode, surfaceWaveMode,
                   bloomIntensity, paramFault>>

SetEffectParams ==
    /\ \E k \in FaultInputs \ {paramFault} : paramFault' = k
    /\ Changed
    /\ UNCHANGED <<paletteIndex, effectMode, bufferMode, surfaceWaveMode,
                   bloomIntensity, chromaticAberration>>

\* The animation loop advances the time (l. 1005-1008); here one callback
\* 17 ms after the last one.
AdvanceTime ==
    /\ ~renderPending
    /\ time < MaxFrames * TimeStep(speed, 17)
    /\ time' = time + TimeStep(speed, 17)
    /\ renderPending' = TRUE
    /\ UNCHANGED <<speed, config, buffers, changes, loopVars, passVars, funcVars>>

Next ==
    \/ RenderEffect
    \/ SetEffectMode
    \/ SetPaletteIndex
    \/ SetBufferMode
    \/ SetSurfaceWaveMode
    \/ SetBloomIntensity
    \/ SetChromaticAberration
    \/ SetEffectParams
    \/ AdvanceTime

Spec == Init /\ [][Next]_vars

-----------------------------------------------------------------------------
(* The animation loop (l. 980-1031): the useEffect on [speed, setFps], its *)
(* callback animate, the restart timer of its catch, and the clock.        *)

\* "deltaTime >= 16.67" (l. 1005) for a clock that counts whole ms.
FrameInterval == 17

\* The delay of the restart after a failed callback (l. 1014-1016), in ms.
RestartDelay == 100

\* The period of the fps estimate (l. 993) in ms, and its cap (l. 997).
FpsPeriod == 1000
MaxFps == 120

\* The values the speed control and the steps of the clock are drawn from.
SpeedInputs == {0, 40}
ElapseInputs == {10, 20}

\* The statement of the try block of animate at which a callback throws:
\* 0 none, 1 the first one (l. 985-990), 2 setTime (l. 1006), 3
\* requestAnimationFrame (l. 1010).
FailInputs == 0..3

\* One run of the useEffect: the closure variables lastTime and speed, what
\* the loop waits for ("frame": the callback that animationFrame names,
\* "timer": the restart of the catch, "none": nothing), and whether the
\* cleanup has not run yet.  failures and restarted are history.
NewLoop(s) ==
    [speed |-> s, lastTime |-> now, pending |-> "frame", requestedAt |-> now,
     due |-> 0, live |-> TRUE, restarted |-> FALSE, failures |-> 0]

\* An estimate that is published as computed, with no cap.
FpsAfterUncapped(counter, currentTime) ==
    LET frameCount == counter.frameCount + 1
        since == currentTime - counter.lastTime
    IN  IF since >= FpsPeriod
        THEN [counter |-> [frameCount |-> 0, lastTime |-> currentTime],
              fps |-> Round(frameCount * 1000, since)]
        ELSE [counter |-> [frameCount |-> frameCount, lastTime |-> counter.lastTime],
              fps |-> fps]

\* The fps estimate of a callback at currentTime (l. 988-1002).
FpsAfter(counter, currentTime) ==
    LET frameCount == counter.frameCount + 1
        since == currentTime - counter.lastTime
    IN  IF since >= FpsPeriod
        THEN [counter |-> [frameCount |-> 0, lastTime |-> currentTime],
              fps |-> clamp(Round(frameCount * 1000, since), 0, MaxFps)]
        ELSE [counter |-> [frameCount |-> frameCount, lastTime |-> counter.lastTime],
              fps |-> fps]

\* A catch that logs the error and sets no timer.
CatchWithoutRestart(loop, k) ==
    [loop |-> [loop EXCEPT !.pending = "none", !.failures = @ + 1],
     errors |-> Append(errors, k)]

\* The catch of animate (l. 1011-1017): the error is logged and a timer
\* set that requests the next callback.
Catch(loop, k) ==
    [loop |-> [loop EXCEPT !.pending = "timer", !.due = now + RestartDelay,
                           !.failures = @ + 1],
     errors |-> Append(errors, k)]

\* The try block of animate run to its end (l. 985-1010) by the loop whose
\* lastTime is advanced accordingly.
Requested(loop) ==
    [loop |-> [loop EXCEPT !.pending = "frame", !.requestedAt = now, !.restarted = FALSE],
     errors |-> errors]

\* The useEffect runs for the first time (l. 980-1023), after the render
\* useEffect declared before it.
MountLoop ==
    /\ loops = <<>>
    /\ ~renderPending
    /\ loops' = <<NewLoop(speed)>>
    /\ UNCHANGED <<time, speed, config, buffers, passVars, funcVars, renderPending, changes, now,
                   fpsCounterRef, fps, errors>>

\* The cleanup of the useEffect (l. 1025-1029): it cancels the callback
\* animationFrame names, if that is still to run.
Cleanup(ls) ==
    [k \in DOMAIN ls |->
        IF ls[k].live
        THEN [ls[k] EXCEPT !.live = FALSE,
                           !.pending = IF @ = "frame" THEN "none" ELSE @]
        ELSE ls[k]]

\* A speed control whose restart of the loop starts the time anew.
SetSpeedResettingTime ==
    /\ loops # <<>>
    /\ ~renderPending
    /\ Len(loops) < MaxLoops
    /\ \E s \in SpeedInputs \ {speed} :
          /\ speed' = s
          /\ loops' = Append(Cleanup(loops), NewLoop(s))
    /\ time' = 0
    /\ UNCHANGED <<config, buffers, passVars, funcVars, renderPending, changes, now,
                   fpsCounterRef, fps, errors>>

\* The speed control (l. 1878-1885) changes the speed: the useEffect is
\* cleaned up and runs again.  An event is handled once the pending effects
\* of the last render have run.
SetSpeed ==
    /\ loops # <<>>
    /\ ~renderPending
    /\ Len(loops) < MaxLoops
    /\ \E s \in SpeedInputs \ {speed} :
          /\ speed' = s
          /\ loops' = Append(Cleanup(loops), NewLoop(s))
    /\ UNCHANGED <<time, config, buffers, passVars, funcVars, renderPending, changes, now,
                   fpsCounterRef, fps, errors>>

\* The clock moves on to the next refresh of the display: the callbacks
\* requested before the present one have run, and so has the effect of the
\* render they caused.
Elapse ==
    /\ loops # <<>>
    /\ ~renderPending
    /\ \A k \in DOMAIN loops : loops[k].pending = "frame" => loops[k].requestedAt = now
    /\ \E d \in ElapseInputs :
          /\ \/ now + d <= MaxClock
             \/ \E k \in DOMAIN loops : loops[k].pending = "frame" /\ loops[k].restarted
          /\ now' = now + d
    /\ UNCHANGED <<time, speed, config, buffers, passVars, funcVars, renderPending, changes, loops,
                   fpsCounterRef, fps, errors>>

\* A throttle that lets every callback advance the time.
DueAlways(loop) == TRUE

\* "if (deltaTime >= 16.67)" (l. 1004-1005) for the callback of a loop that
\* runs now, deltaTime being currentTime - lastTime (l. 986).
Due(loop) == now - loop.lastTime >= FrameInterval

\* What a callback of the loop leaves, c being the catch's or the try
\* block's result for the loop.
Ticked(k, c) ==
    /\ loops' = [loops EXCEPT ![k] = c.loop]
    /\ errors' = c.errors

\* The callback animate (l. 984-1018) of loop k runs, throwing at the
\* statement fail.
animate(k, fail) ==
    /\ k \in DOMAIN loops
    /\ loops[k].pending = "frame"
    /\ now > loops[k].requestedAt
    /\ ~renderPending
    /\ fail > 0 => Len(errors) < MaxErrors
    /\ fail = 2 => Due(loops[k])
    /\ fpsCounterRef' = IF fail = 1 THEN fpsCounterRef
                        ELSE FpsAfter(fpsCounterRef, now).counter
    /\ fps' = IF fail = 1 THEN fps ELSE FpsAfter(fpsCounterRef, now).fps
    /\ IF fail \in {0, 3} /\ Due(loops[k])
       THEN /\ time' = time + TimeStep(loops[k].speed, now - loops[k].lastTime)
            /\ renderPending' = TRUE
            /\ Ticked(k, IF fail = 0 THEN Requested([loops[k] EXCEPT !.lastTime = now])
                         ELSE Catch([loops[k] EXCEPT !.lastTime = now], k))
       ELSE /\ UNCHANGED <<time, renderPending>>
            /\ Ticked(k, IF fail = 0 THEN Requested(loops[k]) ELSE Catch(loops[k], k))
    /\ UNCHANGED <<speed, config, buffers, passVars, funcVars, changes, now>>

\* The restart timer of loop k fires (l. 1014-1016) once it is due.
TimerFires(k) ==
    /\ k \in DOMAIN loops
    /\ loops[k].pending = "timer"
    /\ now' = Max(now, loops[k].due)
    /\ loops' = [loops EXCEPT ![k] = [@ EXCEPT !.pending = "frame",
                                               !.requestedAt = Max(now, loops[k].due),
                                               !.restarted = TRUE]]
    /\ UNCHANGED <<time, speed, config, buffers, passVars, funcVars, renderPending, changes,
                   fpsCounterRef, fps, errors>>

NextLoop ==
    \/ RenderEffect
    \/ MountLoop
    \/ SetSpeed
    \/ Elapse
    \/ \E k \in 1..MaxLoops, fail \in FailInputs : animate(k, fail)
    \/ \E k \in 1..MaxLoops : TimerFires(k)

\* The host runs a timer that is due.
SpecLoop ==
    Init /\ [][NextLoop]_vars /\ \A k \in 1..MaxLoops : WF_vars(TimerFires(k))

-----------------------------------------------------------------------------
(* The post-processing passes taken alone: each is applied to a pixel      *)
(* buffer drawn from a set of test buffers, under every setting.           *)

\* At most this many passes are applied to a buffer in one run.
MaxPasses == 2

\* Opaque pixel buffers whose bytes differ from pixel to pixel and from
\* channel to channel by the steps b and c.
TestBuffers ==
    {[p \in Bytes |-> IF p % 4 = 3 THEN 255
                      ELSE (a + b * (p \div 4) + c * (p % 4)) % 256] :
        a \in {0, 90, 200}, b \in {0, 37, 251}, c \in {0, 85}}

\* The settings of the passes.
PassBloomInputs == {0, 30}
PassAberrationInputs == {0, 10, 20, 50}

InitPost ==
    /\ time = 0
    /\ paletteIndex = 0
    /\ speed = 10
    /\ effectMode = "plasma"
    /\ bufferMode = "double"
    /\ surfaceWaveMode \in SurfaceWaveModes
    /\ bloomIntensity \in PassBloomInputs
    /\ chromaticAberration \in PassAberrationInputs
    /\ paramFault = 0
    /\ canvas = BlankCanvas
    /\ offscreenCanvasRef = Null
    /\ tripleBufferCanvasRef = Null
    /\ compositeOp = [offscreen |-> "source-over", triple |-> "source-over"]
    /\ renderPending = TRUE
    /\ tick = NoTick
    /\ changes = 0
    /\ now = 0
    /\ loops = <<>>
    /\ fpsCounterRef = [frameCount |-> 0, lastTime |-> 0]
    /\ fps = 60
    /\ errors = <<>>
    /\ passData \in TestBuffers
    /\ passBefore = passData
    /\ FunctionsIdle

\* A pass is applied to the buffer; the record of the run names it.
Passed(name, result) ==
    /\ Len(tick.log) < MaxPasses
    /\ passBefore' = passData
    /\ passData' = result
    /\ tick' = [tick EXCEPT !.log = Append(@, name)]
    /\ UNCHANGED <<time, speed, config, canvas, offscreenCanvasRef,
                   tripleBufferCanvasRef, compositeOp, renderPending, changes,
                   loopVars, funcVars>>

ApplyBloom == Passed("bloom", applyBloom(passData))
ApplyChromaticAberration == Passed("chromatic", applyChromaticAberration(passData))
ApplySurfaceWave == Passed("wave", applySurfaceWave(passData))

NextPost ==
    \/ ApplyBloom
    \/ ApplyChromaticAberration
    \/ ApplySurfaceWave

SpecPost == InitPost /\ [][NextPost]_vars

-----------------------------------------------------------------------------
(* Properties of the render pipeline, checked under Spec.                  *)

\* The frame the present parameters and time yield on canvases created new.
FreshFrame ==
    RenderFrame(Null, Null, [offscreen |-> "source-over", triple |-> "source-over"])

\* The effect has run for the present parameters and copied a frame to the
\* visible canvas.
Settled == ~renderPending /\ tick.blitted

\* The canvases that exist: the visible one and those the refs hold.
BufferCount ==
    1 + (IF offscreenCanvasRef = Null THEN 0 ELSE 1)
      + (IF tripleBufferCanvasRef = Null THEN 0 ELSE 1)

\* The place of a post-processing pass in the order bloom, chromatic
\* aberration, surface wave; 0 for the other steps of the effect.
PassRank(op) ==
    CASE op = "bloom" -> 1
      [] op = "chromatic" -> 2
      [] op = "wave" -> 3
      [] OTHER -> 0

\* First place of a step in the record of the last run of the effect, 0
\* when it did not happen.
Place(op) ==
    IF \E i \in DOMAIN tick.log : tick.log[i] = op
    THEN CHOOSE i \in DOMAIN tick.log :
            tick.log[i] = op /\ \A j \in DOMAIN tick.log : tick.log[j] = op => i <= j
    ELSE 0

\* C1: whenever a run of the effect has copied to the visible canvas, the
\* visible canvas holds one complete frame: every pixel of the frame was
\* written by the renderer, and the canvas is the frame of the present
\* parameters rendered on a cleared work canvas.
C1_VisibleIsOneCompleteFrame ==
    tick.blitted =>
        /\ tick.written = PixelCount
        /\ ~renderPending => canvas = FreshFrame.offscreen

\* C2: a run of the effect in which a kernel threw, whether the kernel caught
\* the exception itself or not, is skipped: it copies nothing to the visible
\* canvas.
C2_ThrowingFrameIsSkipped == (tick.threw \/ tick.caught) => ~tick.blitted

\* C4: in every run of the effect the post-processing passes that run do so
\* in the order bloom, then chromatic aberration, then surface wave.
C4_PassOrder ==
    \A i, j \in DOMAIN tick.log :
        (i < j /\ PassRank(tick.log[i]) > 0 /\ PassRank(tick.log[j]) > 0)
            => PassRank(tick.log[i]) <= PassRank(tick.log[j])

\* C4 witness: a frame on which all three passes ran.
C4_AllPassesRan ==
    Settled /\ Place("bloom") > 0 /\ Place("chromatic") > 0 /\ Place("wave") > 0

\* The frame the present parameters and time yield when the wave distorts
\* the work canvas once and the result is copied, as the triple mode does.
WavedOnce(d) == applySurfaceWave(d.work)

\* C21: with a surface wave selected the distortion is applied exactly once
\* to a frame in either buffer mode, and the frame shown is the one the
\* triple mode shows for the same parameters and time.
C21_WaveAppliedOnce ==
    (Settled /\ surfaceWaveMode # "none") =>
        /\ Cardinality({i \in DOMAIN tick.log : tick.log[i] = "wave"}) = 1
        /\ canvas = WavedOnce(Dispatch(BlackCanvas, "source-over"))

C20_EveryFramePostProcessed ==
    Settled =>
        /\ bloomIntensity > 0 =>
              (0 < Place("bloom") /\ Place("bloom") < Place("blit"))
        /\ chromaticAberration > 0 =>
              (0 < Place("chromatic") /\ Place("chromatic") < Place("blit"))

\* C6: a frame rendered after any history of other frames is byte for byte
\* the frame the same mode, parameters, palette and time yield on canvases
\* created new: the back canvas, the work canvas and the visible canvas hold
\* the same bytes both times.
C6_SameInputsSameFrame ==
    Settled =>
        /\ offscreenCanvasRef = FreshFrame.offscreen
        /\ canvas = FreshFrame.offscreen
        /\ bufferMode = "triple" => tripleBufferCanvasRef = FreshFrame.triple

\* C6 witness: the frame of the first parameters and time rendered again
\* after other frames were rendered in between.
C6_RenderedAgain ==
    /\ Settled
    /\ changes >= 2
    /\ time = 0
    /\ config = <<0, "plasma", "double", "none", 30, 50, 0>>

\* C7: a run of the effect in triple mode that completes renders into the
\* work canvas, then copies it to the back canvas, then copies the back
\* canvas to the visible one; afterwards the visible canvas equals the work
\* canvas.
C7_TripleOrder ==
    (tick.mode = "triple" /\ tick.blitted) =>
        /\ 0 < Place("clear")
        /\ Place("clear") < Place("copy")
        /\ Place("render") < Place("copy")
        /\ Place("copy") < Place("blit")
        /\ Place("blit") = Len(tick.log)
        /\ offscreenCanvasRef = tripleBufferCanvasRef
        /\ canvas = tripleBufferCanvasRef

\* C7 witness: a frame rendered in triple mode on a work canvas that held
\* another frame before.
C7_TripleFrameShown ==
    Settled /\ tick.mode = "triple" /\ tick.triples = 2 /\ canvas # BlackCanvas

\* The step is the run of the effect that follows a switch from double to
\* triple buffering.
FirstTripleTick ==
    renderPending /\ ~renderPending' /\ tick'.prev = "double" /\ tick'.mode = "triple"

\* C8 as stated: the run of the effect that follows a switch from double to
\* triple buffering creates exactly one canvas, the third one.
C8_EverySwitchAllocatesOne ==
    (tick.prev = "double" /\ tick.mode = "triple") =>
        (tick.created.triple /\ ~tick.created.offscreen)

\* C8 amended: the switch itself leaves every canvas as it is; the run of
\* the effect that follows creates exactly one canvas when it is the first
\* run in triple mode and none when it is a later one, and the visible canvas
\* changes in it only by the copy of the completed frame.
C8_FirstSwitchAllocatesOne ==
    [][ /\ bufferMode' # bufferMode =>
              /\ canvas' = canvas
              /\ offscreenCanvasRef' = offscreenCanvasRef
              /\ tripleBufferCanvasRef' = tripleBufferCanvasRef
        /\ FirstTripleTick =>
              /\ tick'.created.triple = (tick'.triples = 1)
              /\ ~tick'.created.offscreen
              /\ canvas' # canvas => tick'.blitted
      ]_vars

\* C8 witness: the first frame rendered in triple mode, the third canvas
\* just created.
C8_SwitchedToTriple ==
    Settled /\ tick.prev = "double" /\ tick.mode = "triple" /\ tick.created.triple

\* C9 as stated: once the effect has run after a switch, exactly two
\* canvases exist in double mode and exactly three in triple mode.
C9_BufferSetMatchesMode ==
    ~renderPending => BufferCount = (IF bufferMode = "triple" THEN 3 ELSE 2)

\* C9 amended: no canvas is ever destroyed; once the effect has run, three
\* canvases exist in triple mode, and in double mode two when triple mode
\* was never rendered and three when it was.
C9_BuffersOnlyGrow ==
    [][ /\ offscreenCanvasRef # Null => offscreenCanvasRef' # Null
        /\ tripleBufferCanvasRef # Null => tripleBufferCanvasRef' # Null
        /\ (~renderPending' /\ bufferMode' = "triple") => BufferCount' = 3
        /\ (~renderPending' /\ bufferMode' = "double") =>
              BufferCount' = (IF tick'.triples > 0 THEN 3 ELSE 2)
      ]_vars

\* C9 witness: back in double mode after triple mode, the third canvas still
\* there.
C9_BackInDouble ==
    Settled /\ tick.mode = "double" /\ tick.triples > 0 /\ BufferCount = 3

\* C10: the third canvas exists only if a run of the effect happened in
\* triple mode, and it is created only by the first such run.
C10_LazyThirdBuffer ==
    /\ tripleBufferCanvasRef # Null => tick.triples > 0
    /\ tick.created.triple => (tick.mode = "triple" /\ tick.triples = 1)

\* C10 witness: after several changes in double mode the third canvas was
\* never created.
C10_NeverTriple ==
    Settled /\ changes = MaxChanges /\ tick.triples = 0 /\ tripleBufferCanvasRef = Null

-----------------------------------------------------------------------------
(* Properties of the animation loop, checked under SpecLoop.               *)

\* The callback of loop k that ran in the step was the first one after a
\* restart, and it ran to its end.
FirstTickAfterRestart(k) ==
    loops[k].pending = "frame" /\ loops[k].restarted /\ ~loops'[k].restarted

\* C3: a callback that throws is caught and logged, and it never halts the
\* loop: every loop whose cleanup has not run waits for a callback or for
\* the restart timer, every failure is in the log, a pending restart timer
\* leads to a requested callback, and the first callback after a restart
\* advances the time.
C3_FailureNeverHaltsLoop ==
    /\ [](\A k \in DOMAIN loops :
            /\ loops[k].live => loops[k].pending # "none"
            /\ loops[k].failures = Cardinality({i \in DOMAIN errors : errors[i] = k}))
    /\ [][\A k \in DOMAIN loops : FirstTickAfterRestart(k) => time' > time]_vars
    /\ \A k \in 1..MaxLoops :
          (k \in DOMAIN loops /\ loops[k].pending = "timer")
              ~> (k \in DOMAIN loops /\ loops[k].pending = "frame")

\* C3 witness: a loop whose callback failed was restarted, and its next
\* callback has advanced the time.
C3_RestartedAndTicked ==
    \E k \in DOMAIN loops :
        /\ loops[k].failures > 0
        /\ loops[k].pending = "frame"
        /\ ~loops[k].restarted
        /\ loops[k].lastTime > loops[k].due
        /\ Len(errors) > 0
        /\ time > 0

-----------------------------------------------------------------------------
(* Properties of the post-processing passes, checked under SpecPost.       *)

\* The pass applied last.
LastPass == IF tick.log = <<>> THEN "none" ELSE tick.log[Len(tick.log)]

\* C5: a pass that is disabled leaves every byte of the buffer as it was:
\* applyBloom with intensity 0, applyChromaticAberration with an offset of 0
\* pixels, applySurfaceWave with the mode 'none'.
C5_DisabledPassIsNoOp ==
    /\ (LastPass = "bloom" /\ bloomIntensity = 0) => passData = passBefore
    /\ (LastPass = "chromatic" /\ ChromaticOffset = 0) => passData = passBefore
    /\ (LastPass = "wave" /\ surfaceWaveMode = "none") => passData = passBefore

\* C5 witness: the aberration was applied with a positive setting that
\* yields the offset 0, to a buffer whose pixels differ along a row.
C5_ZeroOffsetApplied ==
    /\ LastPass = "chromatic"
    /\ chromaticAberration > 0
    /\ ChromaticOffset = 0
    /\ passBefore[0] # passBefore[4]

\* C26: the aberration with the offset k leaves in every pixel (x, y) the
\* red of the pixel (max(0, x - k), y), the green of (x, y) and the blue of
\* (min(width - 1, x + k), y) of the buffer as it was before the pass, and
\* the alpha as it was: no byte comes from another row or from a pixel the
\* pass has written.
C26_ChannelShift ==
    (LastPass = "chromatic" /\ chromaticAberration > 0) =>
        \A x \in Xs, y \in Ys :
            LET at(xx) == (y * width + xx) * 4
            IN  /\ passData[at(x)] = passBefore[at(Max(0, x - ChromaticOffset))]
                /\ passData[at(x) + 1] = passBefore[at(x) + 1]
                /\ passData[at(x) + 2] =
                      passBefore[at(Min(width - 1, x + ChromaticOffset)) + 2]
                /\ passData[at(x) + 3] = passBefore[at(x) + 3]

\* C26 witness: the aberration shifted the channels of a buffer whose
\* pixels differ along a row by at least one pixel.
C26_ChannelsShifted ==
    /\ LastPass = "chromatic"
    /\ ChromaticOffset >= 1
    /\ passBefore[0] # passBefore[4]
    /\ passData # passBefore

\* The copper bars over canvas cv in the reverse of the order of
\* renderCopper's loop (l. 265): from bar i down to bar 0.
RECURSIVE DrawBarsReversed(_, _, _)
DrawBarsReversed(cv, i, op) ==
    IF i < 0 THEN cv ELSE DrawBarsReversed(DrawBar(cv, i, op), i - 1, op)

\* The channel-wise maximum, over the bars, of each bar drawn alone on the
\* cleared canvas; a pixel that no bar covers stays black.
MaxOfBars ==
    [p \in Bytes |->
        LET RECURSIVE Highest(_)
            Highest(i) ==
                IF i >= copperCount THEN 0
                ELSE Max(DrawBar(BlackCanvas, i, "source-over")[p], Highest(i + 1))
        IN  IF p % 4 = 3 THEN 255 ELSE Highest(0)]

\* The rows that more than one copper bar covers.
OverlapRows ==
    {yy \in Ys : \E i, j \in 0..(copperCount - 1) :
                    i # j /\ yy \in BarRows(i) /\ yy \in BarRows(j)}

C30_CopperScreenedOverPlasma ==
    /\ (Settled /\ effectMode = "both" /\ surfaceWaveMode = "none" /\ paramFault = 0)
          => canvas = DrawBars(PixelBlock(BlackCanvas, "plasma").work, 0, "screen")
    /\ compositeOp = [offscreen |-> "source-over", triple |-> "source-over"]

\* A displayed copper frame on which two bars overlap.
C30_OverlappingBarsShown ==
    /\ Settled /\ effectMode = "copper" /\ surfaceWaveMode = "none" /\ paramFault = 0
    /\ OverlapRows # {}

\* A displayed frame of the combined mode that the bars changed.
C30_CopperOverPlasmaShown ==
    /\ Settled /\ effectMode = "both" /\ surfaceWaveMode = "none" /\ paramFault = 0
    /\ canvas # PixelBlock(BlackCanvas, "plasma").work

\* The sum of colour channel c over the 3x3 neighbourhood of the pixel
\* (x, y) of a buffer.
NeighbourhoodSum(data, x, y, c) ==
    LET RECURSIVE Sum(_)
        Sum(S) == IF S = {} THEN 0
                  ELSE LET d == CHOOSE d \in S : TRUE
                       IN  data[((y + d[2]) * width + (x + d[1])) * 4 + c]
                           + Sum(S \ {d})
    IN  Sum({0 - 1, 0, 1} \X {0 - 1, 0, 1})

\* C28: a bloom of positive intensity leaves each colour channel of each
\* interior pixel at min(255, original + intensity * mean of the channel
\* over the 3x3 neighbourhood), the neighbourhood read from the buffer as
\* it was before the pass and the result stored as the nearest byte; no
\* channel is lowered, and the border ring and every alpha byte are left
\* as they were.  (Intensity is in hundredths, so both sides are in
\* units of 1/900.)
C28_BloomAddsNeighbourhoodMean ==
    (LastPass = "bloom" /\ bloomIntensity > 0) =>
        \A x \in Xs, y \in Ys, c \in 0..3 :
            LET p == (y * width + x) * 4 + c
                interior == /\ 1 <= x /\ x <= width - 2
                            /\ 1 <= y /\ y <= height - 2
                target == Min(255 * 900,
                              passBefore[p] * 900
                                + bloomIntensity * NeighbourhoodSum(passBefore, x, y, c))
            IN  IF interior /\ c < 3
                THEN /\ Abs(passData[p] * 900 - target) <= 450
                     /\ passData[p] >= passBefore[p]
                ELSE passData[p] = passBefore[p]

\* C28 witness: the bloom brightened two neighbouring interior pixels of
\* a buffer whose pixels differ, without saturating them.
C28_InteriorBrightened ==
    /\ LastPass = "bloom"
    /\ bloomIntensity > 0
    /\ width >= 4
    /\ LET p == (width + 1) * 4
       IN  /\ passBefore[p] < passData[p] /\ passData[p] < 255
           /\ passBefore[p + 4] < passData[p + 4] /\ passData[p + 4] < 255
           /\ passBefore[p] # passBefore[p + 4]

\* C29: the surface wave leaves in every pixel the four bytes of one
\* pixel of the buffer as it was before the pass, namely the pixel at the
\* source coordinate, which lies on the canvas: nothing already moved is
\* read, nothing outside the buffer is read, and no pixel appears that the
\* input did not hold.
C29_WaveCopiesSnapshotPixels ==
    (LastPass = "wave" /\ surfaceWaveMode # "none") =>
        \A x \in Xs, y \in Ys :
            LET src == WaveSource(surfaceWaveMode, x, y)
            IN  /\ src % width \in Xs
                /\ src \div width \in Ys
                /\ \A c \in 0..3 :
                      passData[(y * width + x) * 4 + c] = passBefore[src * 4 + c]

\* C29 witness: the wave moved pixels of a buffer whose pixels differ, and
\* one of its sources is a pixel that the pass itself overwrote with a
\* different one earlier in the scan.
C29_SourceAlreadyOverwritten ==
    /\ LastPass = "wave"
    /\ surfaceWaveMode # "none"
    /\ \E n \in 0..(PixelCount - 1) :
          LET src == WaveSource(surfaceWaveMode, n % width, n \div width)
          IN  /\ src < n
              /\ \E c \in 0..2 : passData[src * 4 + c] # passBefore[src * 4 + c]

\* The buffer data with the red of every pixel taken k pixels to the left
\* and the blue k pixels to the right, within the row.
Shifted(data, k) ==
    [p \in Bytes |->
        LET n == p \div 4
            row == (n \div width) * width
        IN  CASE p % 4 = 0 -> data[(row + Max(0, (n % width) - k)) * 4]
              [] p % 4 = 2 -> data[(row + Min(width - 1, (n % width) + k)) * 4 + 2]
              [] OTHER -> data[p]]

\* C27 as stated: the channels are shifted by round(intensity * width)
\* pixels.
C27_ShiftIsRoundedOffset ==
    (LastPass = "chromatic" /\ chromaticAberration > 0) =>
        passData = Shifted(passBefore, Round(chromaticAberration * width, 100))

\* C27: the channels are shifted by floor(intensity * width) pixels, the
\* product rounded down.
C27_ShiftIsFlooredOffset ==
    (LastPass = "chromatic" /\ chromaticAberration > 0) =>
        passData = Shifted(passBefore, Floor(chromaticAberration * width, 100))

\* C27 witness: the aberration ran with a setting whose product with the
\* width is rounded down to one pixel less than its nearest integer, on a
\* buffer for which the two shifts differ.
C27_RoundedDownShift ==
    /\ LastPass = "chromatic"
    /\ Floor(chromaticAberration * width, 100) < Round(chromaticAberration * width, 100)
    /\ passData = Shifted(passBefore, Floor(chromaticAberration * width, 100))
    /\ passData # Shifted(passBefore, Round(chromaticAberration * width, 100))

-----------------------------------------------------------------------------
(* Properties of the clock of the animation, checked under SpecLoop.       *)

\* The step is a callback of loop k that ran its try block to the end.
CallbackCompleted(k) ==
    /\ loops[k].pending = "frame"
    /\ loops'[k].pending = "frame"
    /\ loops'[k].requestedAt > loops[k].requestedAt

\* C11: a callback that runs less than 16.67 ms after the last advance of
\* its loop leaves the time and lastTime as they are; a callback that runs
\* at least 16.67 ms after it advances the time once, by the step of the
\* whole interval, and sets lastTime to the present.
C11_ThrottledTick ==
    [][\A k \in DOMAIN loops :
          CallbackCompleted(k) =>
              IF now - loops[k].lastTime < FrameInterval
              THEN /\ time' = time
                   /\ loops'[k].lastTime = loops[k].lastTime
              ELSE /\ time' = time + TimeStep(loops[k].speed, now - loops[k].lastTime)
                   /\ time' > time
                   /\ loops'[k].lastTime = now
      ]_vars

\* C11 witness: a loop that has advanced the time has just run a callback
\* that was skipped.
C11_SkippedAfterAdvance ==
    \E k \in DOMAIN loops :
        /\ loops[k].pending = "frame"
        /\ loops[k].requestedAt = now
        /\ loops[k].failures = 0
        /\ loops[k].lastTime > 0
        /\ now > loops[k].lastTime
        /\ now - loops[k].lastTime < FrameInterval
        /\ time > 0

\* C12: the time of the animation never decreases: no callback, skipped
\* tick, change of the speed, failure or restart moves it backwards or
\* resets it.
C12_TimeNeverDecreases == [][time' >= time]_vars

\* C12 witness: after a change of the speed the new loop has failed, was
\* restarted and has advanced the time again.
C12_AdvancedAcrossRestarts ==
    \E k \in DOMAIN loops :
        /\ k >= 2
        /\ loops[k].failures > 0
        /\ loops[k].pending = "frame"
        /\ ~loops[k].restarted
        /\ loops[k].lastTime > loops[k].due
        /\ time > TimeStep(loops[k].speed, RestartDelay)

\* C13: where the time advances the speed is clamped to [0.1, 3.0]: for the
\* interval that has elapsed, a loop with a speed below 0.1 advances the
\* time as the speed 0.1 does, one with a speed above 3.0 as the speed 3.0
\* does, and one with a speed in between by its own speed.
C13_SpeedClamped ==
    [][\A k \in DOMAIN loops :
          (CallbackCompleted(k) /\ loops'[k].lastTime # loops[k].lastTime) =>
              LET s == loops[k].speed
                  d == now - loops[k].lastTime
              IN  /\ s < MinSpeed => time' - time = MinSpeed * d
                  /\ s > MaxSpeed => time' - time = MaxSpeed * d
                  /\ (MinSpeed <= s /\ s <= MaxSpeed) => time' - time = s * d
      ]_vars

\* C13 witness: the first loop never advanced the time, the second one has
\* a speed below 0.1, and the time has advanced.
C13_SlowLoopAdvanced ==
    /\ Len(loops) >= 2
    /\ loops[1].lastTime = 0
    /\ ~loops[1].live
    /\ loops[1].failures = 0
    /\ loops[2].speed < MinSpeed
    /\ loops[2].lastTime > 0
    /\ time > 0

\* C22: a loop whose cleanup has run has nothing scheduled and takes no
\* further step, whether or not a tick of it had failed and set the restart
\* timer before; so at most one loop has a callback or a timer to come.
C22_StoppedLoopStaysStopped ==
    /\ [](\A k \in DOMAIN loops : ~loops[k].live => loops[k].pending = "none")
    /\ [][\A k \in DOMAIN loops : ~loops[k].live => loops'[k] = loops[k]]_vars

-----------------------------------------------------------------------------
(* The fps estimate taken alone: the callbacks of one loop over a few      *)
(* seconds, at the rate of a fast display or with long pauses in between.  *)
(* The frames the callbacks cause are left out: the estimate does not      *)
(* depend on them.                                                         *)

\* The clock of the estimate runs to at most this many ms.
MaxFpsClock == 2100

\* The ms from one callback to the next.
FpsElapseInputs == {4, 500, 1000}

\* The component is mounted and its loop has requested the first callback
\* (l. 254, 980-1023).
InitFps ==
    /\ time = 0
    /\ paletteIndex = 0
    /\ speed = 10
    /\ effectMode = "plasma"
    /\ bufferMode = "double"
    /\ surfaceWaveMode = "none"
    /\ bloomIntensity = 30
    /\ chromaticAberration = 50
    /\ paramFault = 0
    /\ canvas = BlankCanvas
    /\ offscreenCanvasRef = Null
    /\ tripleBufferCanvasRef = Null
    /\ compositeOp = [offscreen |-> "source-over", triple |-> "source-over"]
    /\ renderPending = FALSE
    /\ tick = NoTick
    /\ changes = 0
    /\ now = 0
    /\ loops = <<[speed |-> 10, lastTime |-> 0, pending |-> "frame", requestedAt |-> 0,
                  due |-> 0, live |-> TRUE, restarted |-> FALSE, failures |-> 0]>>
    /\ fpsCounterRef = [frameCount |-> 0, lastTime |-> 0]
    /\ fps = 60
    /\ errors = <<>>
    /\ passData = createImageData
    /\ passBefore = createImageData
    /\ FunctionsIdle

\* A skipped tick that takes the present for the time of the last advance.
SkippedResettingLastTime(loop, currentTime) ==
    [loop EXCEPT !.requestedAt = currentTime, !.lastTime = currentTime]

\* The loop after a callback at currentTime that did not advance the time
\* (l. 1005 false, l. 1010): lastTime stays, the next callback is requested.
Skipped(loop, currentTime) == [loop EXCEPT !.requestedAt = currentTime]

\* The try block of animate (l. 985-1010) run at currentTime by the loop:
\* the estimate first, then the throttled advance of the time.
AnimateAt(currentTime) ==
    LET est == FpsAfter(fpsCounterRef, currentTime)
        deltaTime == currentTime - loops[1].lastTime
    IN  /\ now' = currentTime
        /\ fpsCounterRef' = est.counter
        /\ fps' = est.fps
        /\ IF deltaTime >= FrameInterval
           THEN /\ time' = time + TimeStep(loops[1].speed, deltaTime)
                /\ loops' = [loops EXCEPT ![1].lastTime = currentTime,
                                          ![1].requestedAt = currentTime]
           ELSE /\ time' = time
                /\ loops' = [loops EXCEPT ![1] = Skipped(loops[1], currentTime)]
        /\ UNCHANGED <<speed, config, buffers, passVars, funcVars, renderPending, changes, errors>>

\* The next callback runs before the time is due to advance, or after.
FastCallback ==
    \E d \in FpsElapseInputs :
        d < FrameInterval /\ now + d <= MaxFpsClock /\ AnimateAt(now + d)
LateCallback ==
    \E d \in FpsElapseInputs :
        d >= FrameInterval /\ now + d <= MaxFpsClock /\ AnimateAt(now + d)

NextFps == FastCallback \/ LateCallback

SpecFps == InitFps /\ [][NextFps]_vars

\* C14: every callback, whether it advances the time or not, adds one to
\* the count of the estimator; a value is published only by a callback that
\* runs at least 1000 ms after the last publication, which then sets the
\* count to 0 and remembers the present; the published value is always
\* within [0, 120].
C14_FpsEstimator ==
    /\ [](fps \in 0..MaxFps)
    /\ [][ IF now' - fpsCounterRef.lastTime >= FpsPeriod
           THEN /\ fpsCounterRef' = [frameCount |-> 0, lastTime |-> now']
                /\ fps' = Min(MaxFps, Round((fpsCounterRef.frameCount + 1) * 1000,
                                             now' - fpsCounterRef.lastTime))
           ELSE /\ fpsCounterRef'.frameCount = fpsCounterRef.frameCount + 1
                /\ fpsCounterRef'.lastTime = fpsCounterRef.lastTime
                /\ fps' = fps
      ]_vars

\* C14 witness: a second value was published, capped at 120, after callbacks
\* that did not advance the time.
C14_CappedValuePublished ==
    /\ fps = MaxFps
    /\ fpsCounterRef.frameCount = 0
    /\ fpsCounterRef.lastTime = now
    /\ now >= 2 * FpsPeriod
    /\ loops[1].lastTime < now

\* C23: skipped ticks lose no time: at a constant speed the time the loop
\* has added up to its last advance is the step of the whole interval from
\* the start of the loop (at 0) to that advance, however many callbacks
\* ran in between without advancing.
C23_SkippedTicksLoseNoTime ==
    /\ time = TimeStep(loops[1].speed, loops[1].lastTime)
    /\ loops[1].lastTime <= now

\* C23 witness: four callbacks 4 ms apart were skipped and the fifth
\* advanced the time by the 20 ms since the start; later the time was
\* advanced again after a long pause.
C23_AdvancedAfterSkips ==
    /\ loops[1].lastTime = 520
    /\ now = 524
    /\ time = TimeStep(loops[1].speed, 520)
    /\ fpsCounterRef.frameCount = 7

-----------------------------------------------------------------------------
(* The palette index taken alone: the state cell holds any number, also    *)
(* one that is no index of PALETTES, and a frame is rendered in each mode. *)

\* The values of the state cell: the first and the last index, and the
\* numbers next to them outside the table.
PaletteRangeInputs == {0 - 1, 0, NumPalettes - 1, NumPalettes}

InitPalette ==
    /\ time = 0
    /\ paletteIndex \in PaletteRangeInputs
    /\ speed = 10
    /\ effectMode \in ModeInputs
    /\ bufferMode = "double"
    /\ surfaceWaveMode = "none"
    /\ bloomIntensity = 30
    /\ chromaticAberration = 50
    /\ paramFault = 0
    /\ canvas = BlankCanvas
    /\ offscreenCanvasRef = Null
    /\ tripleBufferCanvasRef = Null
    /\ compositeOp = [offscreen |-> "source-over", triple |-> "source-over"]
    /\ renderPending = TRUE
    /\ tick = NoTick
    /\ changes = 0
    /\ now = 0
    /\ loops = <<>>
    /\ fpsCounterRef = [frameCount |-> 0, lastTime |-> 0]
    /\ fps = 60
    /\ errors = <<>>
    /\ passData = createImageData
    /\ passBefore = createImageData
    /\ FunctionsIdle

\* setPaletteIndex (l. 215) with any number.
SetPaletteIndexTo ==
    /\ \E i \in PaletteRangeInputs \ {paletteIndex} : paletteIndex' = i
    /\ Changed
    /\ UNCHANGED <<effectMode, bufferMode, surfaceWaveMode, bloomIntensity,
                   chromaticAberration, paramFault>>

NextPalette == RenderEffect \/ SetPaletteIndexTo \/ SetBufferMode

SpecPalette == InitPalette /\ [][NextPalette]_vars

\* C15: a frame rendered with a palette index outside the table does not
\* fail, in any effect mode: the run completes and shows its frame.
C15_OutOfRangePaletteRenders ==
    (~renderPending /\ PaletteMissing) =>
        (tick.blitted /\ ~tick.threw /\ ~tick.caught)

-----------------------------------------------------------------------------
(* The functions taken alone: each is called with inputs of a small set,   *)
(* the rest of the component being at rest.                                *)

\* The values of gridSize renderGrid is called with: the cell sizes that
\* fit the canvas, zero and a negative one.
GridSizeInputs == (0 - 1)..width

\* A double that has come down to -2^53 is left as it is by "x +=
\* cellSize" with a small negative cellSize; the model has this floor of
\* the coordinates one cell row below the canvas.
CoordinateFloor == 0 - (width + 1)

\* renderGrid is called (l. 638-644): the loops start at x = 0, y = 0.
CallRenderGrid ==
    /\ gridLoop.state # "run"
    /\ built = NoPalette /\ codec = NoCode /\ lookup = NoLookup
    /\ \E size \in GridSizeInputs :
          gridLoop' = [state |-> "run", cellSize |-> size, x |-> 0, y |-> 0,
                       cells |-> {}, beat |-> 0]
    /\ UNCHANGED <<time, speed, config, buffers, renderPending, changes, loopVars,
                   passVars, built, codec, lookup>>

\* One test of a loop condition of renderGrid and what follows it
\* (l. 645-659): the end of the function, a cell and "x += cellSize", or
\* the end of a row and "y += cellSize".
GridIteration ==
    /\ gridLoop.state = "run"
    /\ gridLoop' =
          IF gridLoop.y >= height
          THEN [gridLoop EXCEPT !.state = "done", !.beat = 1 - @]
          ELSE IF gridLoop.x < width
               THEN [gridLoop EXCEPT !.cells = @ \cup {<<gridLoop.x, gridLoop.y>>},
                                     !.x = Max(@ + gridLoop.cellSize, CoordinateFloor),
                                     !.beat = 1 - @]
               ELSE [gridLoop EXCEPT !.x = 0, !.y = @ + gridLoop.cellSize,
                                     !.beat = 1 - @]
    /\ UNCHANGED <<time, speed, config, buffers, renderPending, changes, loopVars,
                   passVars, built, codec, lookup>>

\* The colours that are encoded: one component takes every value of a
\* byte, the two others the values at the ends of a hexadecimal digit.
ChannelEdges == {0, 15, 16, 255}
RgbInputs ==
    {<<r, g, b>> : r \in 0..255, g \in ChannelEdges, b \in ChannelEdges}
        \cup {<<r, g, b>> : r \in ChannelEdges, g \in 0..255, b \in ChannelEdges}
        \cup {<<r, g, b>> : r \in ChannelEdges, g \in ChannelEdges, b \in 0..255}

Encoded(rgb, hex) == [rgb |-> rgb, hex |-> hex, back |-> hexToRgb(hex)]

\* A colour is encoded by rgbToHex (palettes.ts l. 183-185) and the text
\* decoded by hexToRgb (l. 176-181).
EncodeDecode ==
    /\ FunctionsIdle
    /\ \E rgb \in RgbInputs : codec' = Encoded(rgb, rgbToHex(rgb[1], rgb[2], rgb[3]))
    /\ UNCHANGED <<time, speed, config, buffers, renderPending, changes, loopVars,
                   passVars, gridLoop, built, lookup>>

\* The generators createPalette is called with: two of PALETTES and
\* generators of the same shape whose values leave 0..255.
Generators ==
    {FireGenerator, OceanGenerator}
        \cup {[name |-> "Linear", base |-> <<a, 100, 255>>, slope |-> <<b, 0 - 150, 1>>] :
                 a \in {0, 200}, b \in {55, 100}}

Built(g, colors) == [builder |-> g.name, gen |-> g, colors |-> colors]

\* A palette of App.tsx is built (l. 31-34).
BuildPalette ==
    /\ FunctionsIdle
    /\ \E g \in Generators : built' = Built(g, createPalette(g))
    /\ UNCHANGED <<time, speed, config, buffers, renderPending, changes, loopVars,
                   passVars, gridLoop, codec, lookup>>

\* A palette of CLASSIC_PALETTES is built (palettes.ts l. 153-174).
GeneratePalette ==
    /\ FunctionsIdle
    /\ \/ built' = Built([FireGenerator EXCEPT !.name = "generateFirePalette"],
                         generateFirePalette(PaletteSize))
       \/ built' = Built([FireGenerator EXCEPT !.name = "generateRainbowPalette"],
                         generateRainbowPalette(PaletteSize))
    /\ UNCHANGED <<time, speed, config, buffers, renderPending, changes, loopVars,
                   passVars, gridLoop, codec, lookup>>

\* The parameters the three kernels are called with: values of their
\* controls (l. 1571-1577, 1684-1690, 1704-1710) and values outside of them.
MetaballInputs == {0 - 15, 5, 15, 50}
RippleInputs == {0 - 1, 0, 1, 3, 8}
FractalInputs == {0 - 8, 0, 16, 32}

\* The sums a kernel can reach with its parameter: each ripple source adds
\* a term between -1 and 1; the loop of the fractal ends at any count up
\* to fractalIterations.
RippleSums(c) == IF c > 0 THEN {1 - 100 * c, 0 - 50, 0, 50, 100 * c - 1} ELSE {0}
FractalCounts(f) == 0..Max(0, f)

\* A kernel computes the palette index of a pixel.
LookUp ==
    /\ FunctionsIdle
    /\ \/ \E size \in MetaballInputs, count \in {1, 3}, d \in {0, 1, 100} :
            lookup' = [kernel |-> "metaballs", index |-> MetaballIndex(count, size, d)]
       \/ \E c \in RippleInputs : \E sum \in RippleSums(c) :
            lookup' = [kernel |-> "ripples", index |-> RippleIndex(c, sum)]
       \/ \E f \in FractalInputs : \E it \in FractalCounts(f) :
            lookup' = [kernel |-> "fractals", index |-> FractalIndex(it, f)]
    /\ UNCHANGED <<time, speed, config, buffers, renderPending, changes, loopVars,
                   passVars, gridLoop, built, codec>>

NextFunctions ==
    \/ LookUp
    \/ CallRenderGrid
    \/ GridIteration
    \/ EncodeDecode
    \/ BuildPalette
    \/ GeneratePalette

\* The loops of renderGrid run without a pause (l. 645-659): an iteration
\* that can be made is made.
SpecFunctions == InitFps /\ [][NextFunctions]_vars /\ WF_vars(GridIteration)

\* C16: the grid renderer terminates for every gridSize, zero and negative
\* values included: a call of renderGrid comes to its end.
C16_GridRendererTerminates == (gridLoop.state = "run") ~> (gridLoop.state = "done")

\* C19: encoding a colour of components 0..255 and decoding the text gives
\* the colour back, and the text is "#" followed by six hexadecimal digits.
C19_HexRoundTrip ==
    codec # NoCode =>
        /\ codec.back = codec.rgb
        /\ Len(codec.hex) = 7
        /\ codec.hex[1] = "#"
        /\ \A k \in 2..7 : codec.hex[k] \in HexChars

\* A colour with a component below 16, which takes a leading zero.
C19_LeadingZeroKept ==
    /\ codec.rgb = <<0, 15, 255>>
    /\ codec.hex = <<"#", "0", "0", "0", "f", "f", "f">>
    /\ codec.back = <<0, 15, 255>>

\* A palette has 64 entries, the first of which is the value of its
\* generator at t = 0.
StartsAtZero ==
    /\ DOMAIN built.colors = 0..(PaletteSize - 1)
    /\ built.colors[0] = generator(built.gen, 0, 1)

\* C17 as stated: every palette has 64 entries taken at t = i / 63, the
\* last being the value of the generator at t = 1, whichever builder
\* made it.
C17_EveryBuilderEndsAtOne ==
    built # NoPalette =>
        /\ StartsAtZero
        /\ built.colors[PaletteSize - 1] = generator(built.gen, 1, 1)

\* C17: every palette has 64 entries, the first being the value of the
\* generator at t = 0; createPalette and generateFirePalette take the last
\* at t = 1, generateRainbowPalette takes entry i at t = i / 64 and so
\* the last at t = 63 / 64.
C17_PaletteSampling ==
    built # NoPalette =>
        /\ StartsAtZero
        /\ built.colors[PaletteSize - 1] =
              IF built.builder = "generateRainbowPalette"
              THEN generator(built.gen, PaletteSize - 1, PaletteSize)
              ELSE generator(built.gen, 1, 1)

\* The rainbow of palettes.ts ends before the hue has come round, and the
\* fire of App.tsx ends on white.
C17_RainbowEndsShort ==
    /\ built.builder = "generateRainbowPalette"
    /\ built.colors[PaletteSize - 1] = <<"#", "f", "f", "0", "0", "1", "8">>
    /\ generator(built.gen, 1, 1) = <<"#", "0", "0", "0", "0", "0", "0">>
    /\ createPalette(FireGenerator)[PaletteSize - 1] = <<255, 255, 255>>

\* C18: every component createPalette stores is within 0..255, whatever
\* the generator returns.
C18_StoredComponentsClamped ==
    built.builder \in {g.name : g \in Generators} =>
        \A i \in DOMAIN built.colors : \A k \in 1..3 : built.colors[i][k] \in 0..255

\* C25: the palette index a kernel computes is an integer within 0..63 for
\* every value of its parameter, values outside of its control included.
C25_PaletteIndexInRange ==
    lookup.index.finite /\ lookup.index.n \in 0..(PaletteSize - 1)

=============================================================================
